---- MODULE Spec2Model ----
(***************************************************************************)
(* Model of package m (src/mapper.go, current revision, lines 329-720):    *)
(* the type-to-table registry, the INSERT/UPDATE/SELECT statement          *)
(* synthesis for the two placeholder dialects, the row scatter of          *)
(* doSelect and the Query builder.                                         *)
(*                                                                         *)
(* Go strings are sequences of one-character strings, so that indexing,    *)
(* slicing, joining and splitting are computed as the code computes them.  *)
(* Every variable other than the registry, the dialect and the builder     *)
(* describes the most recent call of the caller: its name, its inputs, the *)
(* statement it handed to the executor and what it returned.               *)
(***************************************************************************)
EXTENDS Integers, Sequences, FiniteSets, TLC

VARIABLES
    mType,      \* Mapping.Type: the dialect
    types,      \* the record types the program declares, as reflect.TypeOf shows them: type name -> fields
    tables,     \* Mapping.tables: record type name -> tableMap (a function on the registered types)
    q,          \* the Query builder under construction by the caller (live = FALSE: none)
    op,         \* name of the most recent call
    input,      \* string input of the most recent call (Where condition, In column, Order clause, query text)
    args,       \* the values handed to the most recent call (Where binding, In bindings, InsertValues values)
    thing,      \* the caller's record handed to the most recent call, as the call left it
    data,       \* the data map handed to the most recent Update
    outcome,    \* how the most recent call ended: "ok", "error" (error value returned) or "panic"
    stmt,       \* the statement the most recent call handed to the executor
    results,    \* the records returned by the most recent Select/SelectOne/Do
    rows,       \* the rowset the executor returned to the most recent doSelect
    rowsOpen,   \* number of rowsets obtained from the executor and not yet closed
    rendered    \* the string returned by the most recent Query.String

vars == <<mType, types, tables, q, op, input, args, thing, data, outcome, stmt, results, rows, rowsOpen, rendered>>

(***************************************************************************)
(* Bounds                                                                  *)
(***************************************************************************)
MaxConds == 2      \* conditions accumulated on one builder
MaxIn == 2         \* values handed to one In call
MaxRows == 2       \* rows in one rowset

(***************************************************************************)
(* Dialects                                                                *)
(***************************************************************************)
Cassandra == 0
PostgreSQL == 1
DBTypes == {Cassandra, PostgreSQL}

(***************************************************************************)
(* strings, strconv, fmt                                                   *)
(***************************************************************************)
RECURSIVE Join(_, _)
Join(a, sep) ==
    IF Len(a) = 0 THEN <<>>
    ELSE IF Len(a) = 1 THEN a[1]
    ELSE a[1] \o sep \o Join(Tail(a), sep)

RECURSIVE Repeat(_, _)
Repeat(s, count) == IF count <= 0 THEN <<>> ELSE s \o Repeat(s, count - 1)

Digit(d) == <<<<"0">>, <<"1">>, <<"2">>, <<"3">>, <<"4">>, <<"5">>, <<"6">>, <<"7">>, <<"8">>, <<"9">>>>[d + 1]

RECURSIVE ItoaNat(_)
ItoaNat(n) == IF n < 10 THEN Digit(n) ELSE ItoaNat(n \div 10) \o Digit(n % 10)

Itoa(n) == IF n < 0 THEN <<"-">> \o ItoaNat(0 - n) ELSE ItoaNat(n)

\* strings.Split(s, ","): the fields of s between the separators; Split("") is one empty field
RECURSIVE SplitFrom(_, _, _)
SplitFrom(s, i, cur) ==
    IF i > Len(s) THEN <<cur>>
    ELSE IF s[i] = "," THEN <<cur>> \o SplitFrom(s, i + 1, <<>>)
    ELSE SplitFrom(s, i + 1, Append(cur, s[i]))

Split(s) == SplitFrom(s, 1, <<>>)

(***************************************************************************)
(* Go values, as reflect sees them: kind, nil-ness, elements, text.        *)
(* An Int holds its number as its only element, a non-nil Ptr its pointee, *)
(* a Slice/Array its elements, a Map (of the one key "k") its values, a     *)
(* String its text.                                                        *)
(***************************************************************************)
IntV(n) == [kind |-> "Int", nil |-> FALSE, elems |-> <<n>>, str |-> <<>>]
StrV(s) == [kind |-> "String", nil |-> FALSE, elems |-> <<>>, str |-> s]
PtrV(n) == [kind |-> "Ptr", nil |-> FALSE, elems |-> <<n>>, str |-> <<>>]
NilPtr == [kind |-> "Ptr", nil |-> TRUE, elems |-> <<>>, str |-> <<>>]
SliceV(e) == [kind |-> "Slice", nil |-> FALSE, elems |-> e, str |-> <<>>]
NilSlice == [kind |-> "Slice", nil |-> TRUE, elems |-> <<>>, str |-> <<>>]
MapV(e) == [kind |-> "Map", nil |-> FALSE, elems |-> e, str |-> <<>>]
ArrayV(e) == [kind |-> "Array", nil |-> FALSE, elems |-> e, str |-> <<>>]
NilInterface == [kind |-> "Invalid", nil |-> TRUE, elems |-> <<>>, str |-> <<>>]

\* reflect.Value.Len of a slice, map or array
ValueLen(v) == Len(v.elems)

\* reflect.Indirect(v).Interface(): the pointee of a pointer, v itself otherwise
Indirect(v) ==
    IF v.kind = "Ptr"
    THEN (IF v.nil THEN NilInterface ELSE IntV(v.elems[1]))
    ELSE v

\* json.Marshal, on the values of this model
MarshalInts(e) == Join([i \in 1..Len(e) |-> Itoa(e[i])], <<",">>)

Marshal(v) ==
    CASE v.kind = "Int" -> Itoa(v.elems[1])
      [] v.kind = "String" -> <<"\"">> \o v.str \o <<"\"">>
      [] v.kind = "Ptr" -> IF v.nil THEN <<"n","u","l","l">> ELSE Itoa(v.elems[1])
      [] v.kind = "Slice" -> IF v.nil THEN <<"n","u","l","l">> ELSE <<"[">> \o MarshalInts(v.elems) \o <<"]">>
      [] v.kind = "Array" -> <<"[">> \o MarshalInts(v.elems) \o <<"]">>
      [] v.kind = "Map" -> <<"{">> \o Join([i \in 1..Len(v.elems) |-> <<"\"", "k", "\"", ":">> \o Itoa(v.elems[i])], <<",">>) \o <<"}">>
      [] OTHER -> <<"n","u","l","l">>

(***************************************************************************)
(* The record types of the caller's program.  A field is its Go kind and   *)
(* the text of its db tag ("" when the field has none).                    *)
(*   type Post struct {                                                    *)
(*       ID     int    `db:"id,pk"`                                        *)
(*       Title  string `db:"title"`                                        *)
(*       Body   []int  `db:"body,serialize"`                               *)
(*       Author *int   `db:"author"`                                       *)
(*       Rev    int    `db:"pk,rev"`                                       *)
(*       Meta   map    `db:"meta"`                                         *)
(*       Sig    [0]int `db:"sig"`                                          *)
(*       hidden int                                                        *)
(*   }                                                                     *)
(***************************************************************************)
PostFields == <<
    [kind |-> "Int", tag |-> <<"i","d",",","p","k">>],
    [kind |-> "String", tag |-> <<"t","i","t","l","e">>],
    [kind |-> "Slice", tag |-> <<"b","o","d","y",",","s","e","r","i","a","l","i","z","e">>],
    [kind |-> "Ptr", tag |-> <<"a","u","t","h","o","r">>],
    [kind |-> "Int", tag |-> <<"p","k",",","r","e","v">>],
    [kind |-> "Map", tag |-> <<"m","e","t","a">>],
    [kind |-> "Array", tag |-> <<"s","i","g">>],
    [kind |-> "Int", tag |-> <<>>] >>

TypeNames == DOMAIN types
TypeFields(typ) == types[typ]
TableNameOf(typ) == IF typ = "Post" THEN <<"p","o","s","t","s">> ELSE <<"r","o","w","s">>

\* The values a field of each kind takes in the caller's records
FieldValues(kind) ==
    CASE kind = "Int" -> {IntV(1), IntV(7)}
      [] kind = "String" -> {StrV(<<"h","i">>)}
      [] kind = "Slice" -> {NilSlice, SliceV(<<>>), SliceV(<<1>>)}
      [] kind = "Ptr" -> {NilPtr, PtrV(3)}
      [] kind = "Map" -> {MapV(<<>>), MapV(<<4>>)}
      [] kind = "Array" -> {ArrayV(<<>>)}

\* The records the caller passes: a struct (or pointer to struct) of a declared
\* type with every combination of the values above, or a value that is no struct
Things(typ) ==
    { [struct |-> TRUE, type |-> typ, fields |-> <<a, b, c, d, e, f, g, IntV(1)>>] :
        a \in FieldValues("Int"), b \in FieldValues("String"), c \in FieldValues("Slice"),
        d \in FieldValues("Ptr"), e \in FieldValues("Int"), f \in FieldValues("Map"),
        g \in FieldValues("Array") }

NonRecord == [struct |-> FALSE, type |-> "int", fields |-> <<>>]
\* a struct of a type the program never hands to AddTable (type Comment struct{})
Unregistered == [struct |-> TRUE, type |-> "Comment", fields |-> <<>>]
NoThing == [struct |-> FALSE, type |-> "", fields |-> <<>>]

(***************************************************************************)
(* AddTable / getTableColumns                                              *)
(***************************************************************************)
RECURSIVE ApplyFlags(_, _, _)
ApplyFlags(col, tag, j) ==
    IF j > Len(tag) THEN col
    ELSE LET flag == tag[j]
         IN  CASE flag = <<"p","k">> -> ApplyFlags([col EXCEPT !.PrimaryKey = TRUE], tag, j + 1)
               [] flag = <<"s","e","r","i","a","l","i","z","e">> -> ApplyFlags([col EXCEPT !.Serialize = TRUE], tag, j + 1)
               [] OTHER -> ApplyFlags(IF col.Name = <<>> THEN [col EXCEPT !.Name = flag] ELSE col, tag, j + 1)

RECURSIVE getTableColumnsFrom(_, _)
getTableColumnsFrom(fields, i) ==
    IF i >= Len(fields) THEN <<>>
    ELSE LET tag == Split(fields[i + 1].tag)
         IN  IF Len(tag) > 0 /\ tag[1] # <<>>
             THEN <<ApplyFlags([Name |-> <<>>, Serialize |-> FALSE, PrimaryKey |-> FALSE, Field |-> i], tag, 1)>>
                    \o getTableColumnsFrom(fields, i + 1)
             ELSE getTableColumnsFrom(fields, i + 1)

getTableColumns(typ) == getTableColumnsFrom(TypeFields(typ), 0)

NewTableMap(name, typ) == [Name |-> name, Type |-> typ, Columns |-> getTableColumns(typ)]

(***************************************************************************)
(* lookupTable / tableType                                                 *)
(***************************************************************************)
tableTypePanics(x) == ~x.struct

lookupTablePanics(x) == tableTypePanics(x) \/ x.type \notin DOMAIN tables

lookupTable(x) == tables[x.type]

\* how a call ends when tableType or lookupTable refuses its thing: both panic
lookupTableReturnsError == "error"

lookupTableAbort == "panic"

(***************************************************************************)
(* Statement synthesis                                                     *)
(***************************************************************************)
\* strings.Repeat("?, ", n)[:(n*3)-2] slices with a negative bound when n = 0
sqlPlaceholdersPanics(n, dbt) == dbt # PostgreSQL /\ (n * 3) - 2 < 0

RECURSIVE NumberedFrom(_, _)
NumberedFrom(i, n) ==
    IF i >= n THEN <<>>
    ELSE <<"$">> \o Itoa(i + 1) \o (IF i < n - 1 THEN <<","," ">> ELSE <<>>) \o NumberedFrom(i + 1, n)

sqlPlaceholders(n, dbt) ==
    IF dbt = PostgreSQL THEN NumberedFrom(0, n)
    ELSE SubSeq(Repeat(<<"?",","," ">>, n), 1, (n * 3) - 2)

sqlInsertString(tableName, columns, dbt) ==
    <<"I","N","S","E","R","T"," ","I","N","T","O"," ">> \o tableName \o <<" ","(">> \o Join(columns, <<","," ">>) \o <<")"," ","V","A","L","U","E","S"," ","(">>
        \o sqlPlaceholders(Len(columns), dbt) \o <<")">>

Placeholder(i, dbt) == IF dbt = PostgreSQL THEN <<"$">> \o Itoa(i + 1) ELSE <<"?">>

RECURSIVE columnPlaceholdersFrom(_, _, _, _)
columnPlaceholdersFrom(columns, sep, dbt, i) ==
    IF i >= Len(columns) THEN <<>>
    ELSE columns[i + 1] \o <<" ","="," ">> \o Placeholder(i, dbt)
            \o (IF i + 1 < Len(columns) THEN sep ELSE <<>>)
            \o columnPlaceholdersFrom(columns, sep, dbt, i + 1)

columnPlaceholders(columns, sep, dbt) == columnPlaceholdersFrom(columns, sep, dbt, 0)

\* a synthesis that numbers the WHERE clause on from the SET clause
sqlUpdateStringContinuous(tableName, columns, keys, dbt) ==
    <<"U","P","D","A","T","E"," ">> \o tableName \o <<" ","S","E","T"," ">> \o columnPlaceholders(columns, <<","," ">>, dbt)
        \o <<" ","W","H","E","R","E"," ">> \o columnPlaceholdersFrom(columns \o keys, <<" ","A","N","D"," ">>, dbt, Len(columns))

sqlUpdateString(tableName, columns, keys, dbt) ==
    <<"U","P","D","A","T","E"," ">> \o tableName \o <<" ","S","E","T"," ">> \o columnPlaceholders(columns, <<","," ">>, dbt)
        \o <<" ","W","H","E","R","E"," ">> \o columnPlaceholders(keys, <<" ","A","N","D"," ">>, dbt)

(***************************************************************************)
(* Insert                                                                  *)
(***************************************************************************)
\* a sparse-write test that forgets the empty slices, maps and arrays
SkipOnInsertNilOnly(value) == value.kind = "Ptr" /\ value.nil

\* the sparse-write test of prepareInsertSqlColumnsValues
SkipOnInsert(value) ==
    \/ value.kind = "Ptr" /\ value.nil
    \/ value.kind \in {"Slice", "Map", "Array"} /\ ValueLen(value) < 1

\* the value bound for a column: the marshaled text when the column is
\* serialize-flagged, the (dereferenced) value otherwise
BoundValue(column, value) ==
    IF column.Serialize THEN StrV(Marshal(value)) ELSE Indirect(value)

RECURSIVE prepareInsertFrom(_, _, _, _)
prepareInsertFrom(thingValue, table, i, acc) ==
    IF i >= Len(table.Columns) THEN acc
    ELSE LET column == table.Columns[i + 1]
             value == thingValue[column.Field + 1]
         IN  IF SkipOnInsert(value)
             THEN prepareInsertFrom(thingValue, table, i + 1, acc)
             ELSE prepareInsertFrom(thingValue, table, i + 1,
                    [columns |-> Append(acc.columns, column.Name),
                     values |-> Append(acc.values, BoundValue(column, value))])

prepareInsertSqlColumnsValues(x, table) ==
    prepareInsertFrom(x.fields, table, 0, [columns |-> <<>>, values |-> <<>>])

(***************************************************************************)
(* Update                                                                  *)
(***************************************************************************)
\* the loop of updateAndGetSqlColumnsValues: acc holds the record as mutated
\* so far and the staged SET columns and values
RECURSIVE updateFrom(_, _, _, _)
updateFrom(table, d, i, acc) ==
    IF i >= Len(table.Columns) THEN acc
    ELSE LET column == table.Columns[i + 1]
         IN  IF column.Name \in DOMAIN d
             THEN LET val == d[column.Name]
                  IN  updateFrom(table, d, i + 1,
                        [fields |-> [acc.fields EXCEPT ![column.Field + 1] = val],
                         columns |-> Append(acc.columns, column.Name),
                         values |-> Append(acc.values, BoundValue(column, val))])
             ELSE updateFrom(table, d, i + 1, acc)

updateAndGetSqlColumnsValues(x, table, d) ==
    updateFrom(table, d, 0, [fields |-> x.fields, columns |-> <<>>, values |-> <<>>])

RECURSIVE keysFrom(_, _, _, _)
keysFrom(thingValue, table, i, acc) ==
    IF i >= Len(table.Columns) THEN acc
    ELSE LET column == table.Columns[i + 1]
         IN  IF ~column.PrimaryKey
             THEN keysFrom(thingValue, table, i + 1, acc)
             ELSE keysFrom(thingValue, table, i + 1,
                    [columns |-> Append(acc.columns, column.Name),
                     values |-> Append(acc.values, Indirect(thingValue[column.Field + 1]))])

keysForUpdate(fields, table) == keysFrom(fields, table, 0, [columns |-> <<>>, values |-> <<>>])

\* an update that reads the key values before it writes the data into the record
updateKeysFirst(x, table, d, dbt) ==
    LET keys == keysForUpdate(x.fields, table)
        set == updateAndGetSqlColumnsValues(x, table, d)
    IN  [fields |-> set.fields,
         columns |-> set.columns,
         keyColumns |-> keys.columns,
         sql |-> sqlUpdateString(table.Name, set.columns, keys.columns, dbt),
         args |-> set.values \o keys.values]

\* tableMap.update up to the executor call: the mutated record, the statement text and its bindings.
\* The key values are read from the record after updateAndGetSqlColumnsValues has written to it.
update(x, table, d, dbt) ==
    LET set == updateAndGetSqlColumnsValues(x, table, d)
        keys == keysForUpdate(set.fields, table)
    IN  [fields |-> set.fields,
         columns |-> set.columns,
         keyColumns |-> keys.columns,
         sql |-> sqlUpdateString(table.Name, set.columns, keys.columns, dbt),
         args |-> set.values \o keys.values]

(***************************************************************************)
(* The executor (database/sql) as doSelect sees it.  A response to Query   *)
(* is an error, or a rowset: its column names (or an error from Columns),  *)
(* the database rows matched, in the order the executor returns them, and  *)
(* the row (0: none) whose Scan reports a conversion error.                *)
(* A database row holds a cell for every column name the rowset can carry. *)
(***************************************************************************)
DbRows == {
    [id |-> 1, body |-> <<"[","1","]">>],
    [id |-> 7, body |-> <<>>],
    [id |-> 2, body |-> <<"x">>] }

CellOf(row, name) ==
    CASE name = <<"i","d">> -> IntV(row.id)
      [] name = <<"t","i","t","l","e">> -> StrV(<<"t">> \o Itoa(row.id))
      [] name = <<"b","o","d","y">> -> StrV(row.body)
      [] OTHER -> IntV(0)

ColumnLists == { <<<<"i","d">>, <<"t","i","t","l","e">>>>, <<<<"i","d">>, <<"e","x","t","r","a">>, <<"t","i","t","l","e">>>>, <<<<"b","o","d","y">>, <<"i","d">>>> }

\* the sequences of at most n distinct database rows
RECURSIVE RowSeqs(_)
RowSeqs(n) ==
    IF n = 0 THEN {<<>>}
    ELSE LET shorter == RowSeqs(n - 1)
         IN  shorter \cup {s \in {Append(r, x) : r \in {r \in shorter : Len(r) = n - 1}, x \in DbRows} :
                              \A i \in 1..(n - 1) : s[i] # s[n]}

\* no rowset: the call made no Query
NoRows == [queryErr |-> FALSE, columnsErr |-> FALSE, columns |-> <<>>, rows |-> <<>>, scanErrAt |-> 0]

Responses ==
    {[queryErr |-> TRUE, columnsErr |-> FALSE, columns |-> <<>>, rows |-> <<>>, scanErrAt |-> 0]}
    \cup {[queryErr |-> FALSE, columnsErr |-> TRUE, columns |-> <<>>, rows |-> <<>>, scanErrAt |-> 0]}
    \cup {[queryErr |-> FALSE, columnsErr |-> FALSE, columns |-> c, rows |-> r, scanErrAt |-> e] :
            c \in ColumnLists, r \in RowSeqs(MaxRows), e \in 0..1}

\* Do reaches doSelect with every builder the caller can have made; the rowsets
\* it is answered with are those of at most one row
DoResponses == {r \in Responses : Len(r.rows) <= 1}

(***************************************************************************)
(* doSelect                                                                *)
(***************************************************************************)
\* reflect.New(t.Type): every field at its zero value
ZeroValue(kind) ==
    CASE kind = "Int" -> IntV(0)
      [] kind = "String" -> StrV(<<>>)
      [] kind = "Slice" -> NilSlice
      [] kind = "Ptr" -> NilPtr
      [] kind = "Map" -> [MapV(<<>>) EXCEPT !.nil = TRUE]
      [] kind = "Array" -> ArrayV(<<>>)

NewInstance(typ) ==
    [struct |-> TRUE, type |-> typ,
     fields |-> [i \in 1..Len(TypeFields(typ)) |-> ZeroValue(TypeFields(typ)[i].kind)]]

\* the inner loop of doSelect: index (from 1) of the first column descriptor
\* named columnName, 0 when there is none (column == nil)
RECURSIVE FindColumn(_, _, _)
FindColumn(columns, columnName, i) ==
    IF i > Len(columns) THEN 0
    ELSE IF columns[i].Name = columnName THEN i
    ELSE FindColumn(columns, columnName, i + 1)

\* values[x], the Scan destination doSelect prepares for one result column:
\* a plain (non-pointer) empty []byte for an unmapped column, a pointer to a
\* fresh []byte for a serialize-flagged column, a pointer to the field otherwise
ScanDest(t, columnName) ==
    LET c == FindColumn(t.Columns, columnName, 1)
    IN  IF c = 0 THEN [pointer |-> FALSE, buffer |-> TRUE, field |-> 0]
        ELSE IF t.Columns[c].Serialize THEN [pointer |-> TRUE, buffer |-> TRUE, field |-> t.Columns[c].Field]
        ELSE [pointer |-> TRUE, buffer |-> FALSE, field |-> t.Columns[c].Field]

\* rows.Scan(values...) returns an error.  Scan belongs to database/sql: it
\* copies each cell into what its destination points at, a destination that is
\* not a pointer is refused ("destination not a pointer"), and the conversion
\* of a cell can fail (convErr, the executor's choice)
ScanFails(dests, convErr) == convErr \/ \E x \in 1..Len(dests) : ~dests[x].pointer

\* json.Unmarshal(data, v) on the texts of this model
UnmarshalFails(bytes, kind) == ~\E v \in FieldValues(kind) \cup {ZeroValue(kind)} : Marshal(v) = bytes
Unmarshal(bytes, kind) == CHOOSE v \in FieldValues(kind) \cup {ZeroValue(kind)} : Marshal(v) = bytes

\* the fields of the instance after a successful Scan of row and the decoding
\* of the non-empty serialize buffers
RECURSIVE ScatterFrom(_, _, _, _, _, _)
ScatterFrom(typ, dests, columns, row, x, fields) ==
    IF x > Len(dests) THEN fields
    ELSE LET d == dests[x]
             cell == CellOf(row, columns[x])
             kind == TypeFields(typ)[d.field + 1].kind
         IN  IF ~d.pointer THEN ScatterFrom(typ, dests, columns, row, x + 1, fields)
             ELSE IF ~d.buffer
             THEN ScatterFrom(typ, dests, columns, row, x + 1, [fields EXCEPT ![d.field + 1] = cell])
             ELSE IF Len(cell.str) > 0
             THEN ScatterFrom(typ, dests, columns, row, x + 1,
                    [fields EXCEPT ![d.field + 1] = Unmarshal(cell.str, kind)])
             ELSE ScatterFrom(typ, dests, columns, row, x + 1, fields)

DecodeFails(typ, dests, columns, row) ==
    \E x \in 1..Len(dests) :
        /\ dests[x].pointer /\ dests[x].buffer
        /\ Len(CellOf(row, columns[x]).str) > 0
        /\ UnmarshalFails(CellOf(row, columns[x]).str, TypeFields(typ)[dests[x].field + 1].kind)

\* the rows.Next loop: the records built so far, or the error exit taken
RECURSIVE ScatterRows(_, _, _, _)
ScatterRows(t, resp, r, acc) ==
    IF r > Len(resp.rows) THEN [outcome |-> "ok", results |-> acc, exit |-> "done"]
    ELSE LET dests == [x \in 1..Len(resp.columns) |-> ScanDest(t, resp.columns[x])]
             instance == NewInstance(t.Type)
         IN  IF ScanFails(dests, resp.scanErrAt = r)
             THEN [outcome |-> "error", results |-> <<>>, exit |-> "scan"]
             ELSE IF DecodeFails(t.Type, dests, resp.columns, resp.rows[r])
             THEN [outcome |-> "error", results |-> <<>>, exit |-> "decode"]
             ELSE ScatterRows(t, resp, r + 1,
                    Append(acc, [instance EXCEPT !.fields =
                        ScatterFrom(t.Type, dests, resp.columns, resp.rows[r], 1, instance.fields)]))

\* a Close placed after the loop instead of deferred
CloseAfterLoop(exit) == IF exit = "done" THEN 1 ELSE 0

\* defer rows.Close(): runs on every exit taken after the defer statement
DeferredClose(exit) == 1

\* doSelect: what it returns, and how many rowsets it obtained and closed
doSelect(t, resp) ==
    IF resp.queryErr
    THEN [outcome |-> "error", results |-> <<>>, exit |-> "query", opened |-> 0, closed |-> 0]
    ELSE LET body == IF resp.columnsErr
                     THEN [outcome |-> "error", results |-> <<>>, exit |-> "columns"]
                     ELSE ScatterRows(t, resp, 1, <<>>)
         IN  [outcome |-> body.outcome, results |-> body.results, exit |-> body.exit,
              opened |-> 1, closed |-> DeferredClose(body.exit)]

\* a SelectOne that takes the last record
SelectOneLast(res) ==
    IF res.outcome = "ok" /\ Len(res.results) < 1 THEN [outcome |-> "ok", results |-> <<>>]
    ELSE IF res.outcome # "ok" THEN [outcome |-> "error", results |-> <<>>]
    ELSE [outcome |-> "ok", results |-> <<res.results[Len(res.results)]>>]

\* SelectOne's choice among doSelect's results
SelectOneResult(res) ==
    IF res.outcome = "ok" /\ Len(res.results) < 1 THEN [outcome |-> "ok", results |-> <<>>]
    ELSE IF res.outcome # "ok" THEN [outcome |-> "error", results |-> <<>>]
    ELSE [outcome |-> "ok", results |-> <<res.results[1]>>]

(***************************************************************************)
(* Query builder                                                           *)
(***************************************************************************)
NoTable == [Name |-> <<>>, Type |-> "", Columns |-> <<>>]

NoQuery == [live |-> FALSE, columns |-> <<>>, conditions |-> <<>>, bindings |-> <<>>,
            limit |-> 0, order |-> <<>>, t |-> NoTable]

\* Mapping.Query: a builder bound to the table of the sample's type
NewQuery(columns, t) ==
    [live |-> TRUE, columns |-> columns, conditions |-> <<>>, bindings |-> <<>>,
     limit |-> 0, order |-> <<>>, t |-> t]

\* condition[len(condition)-2] and condition[len(condition)-3] index out of
\* range for short conditions; || evaluates its right operand only when the
\* left one is false
WherePanics(condition) ==
    LET n == Len(condition)
    IN  \/ n - 2 < 0
        \/ condition[n - 2 + 1] = " " /\ n - 3 < 0

WhereAddsEquals(condition) ==
    LET n == Len(condition)
    IN  condition[n - 2 + 1] # " " \/ condition[n - 3 + 1] # " "

WhereCondition(condition) ==
    (IF WhereAddsEquals(condition) THEN condition \o <<" ","=">> ELSE condition) \o <<" ","?">>

InCondition(column, n, dbt) == column \o <<" ","I","N"," ","(">> \o sqlPlaceholders(n, dbt) \o <<")">>

\* a rendering with LIMIT before ORDER BY
StringLimitFirst(b) ==
    LET s0 == <<"S","E","L","E","C","T"," ">> \o b.columns \o <<" ","F","R","O","M"," ">> \o b.t.Name
        s1 == IF Len(b.conditions) > 0 THEN s0 \o <<" ","W","H","E","R","E"," ">> \o Join(b.conditions, <<" ","A","N","D"," ">>) ELSE s0
        s2 == IF b.limit > 0 THEN s1 \o <<" ","L","I","M","I","T"," ">> \o Itoa(b.limit) ELSE s1
        s3 == IF b.order # <<>> THEN s2 \o <<" ","O","R","D","E","R"," ","B","Y"," ">> \o b.order ELSE s2
    IN  s3

\* Query.String
String(b) ==
    LET s0 == <<"S","E","L","E","C","T"," ">> \o b.columns \o <<" ","F","R","O","M"," ">> \o b.t.Name
        s1 == IF Len(b.conditions) > 0 THEN s0 \o <<" ","W","H","E","R","E"," ">> \o Join(b.conditions, <<" ","A","N","D"," ">>) ELSE s0
        s2 == IF b.order # <<>> THEN s1 \o <<" ","O","R","D","E","R"," ","B","Y"," ">> \o b.order ELSE s1
        s3 == IF b.limit > 0 THEN s2 \o <<" ","L","I","M","I","T"," ">> \o Itoa(b.limit) ELSE s2
    IN  s3

(***************************************************************************)
(* The calls of the caller's program.  The caller is sequential: it makes  *)
(* one call at a time (op = "none": it is between calls; otherwise the     *)
(* call named by op has just ended and its results are at hand), and while *)
(* it holds a builder it works on that builder until it drops it.          *)
(***************************************************************************)
NoStmt == [via |-> "none", sql |-> <<>>, args |-> <<>>]
NoData == [k \in {} |-> NilInterface]

Ready == op = "none"
Idle == Ready /\ ~q.live
Building == Ready /\ q.live

\* what the most recent call was given and what it did
Called(o, in, a, x, d, out, s, res, rw, txt) ==
    /\ op' = o
    /\ input' = in
    /\ args' = a
    /\ thing' = x
    /\ data' = d
    /\ outcome' = out
    /\ stmt' = s
    /\ results' = res
    /\ rows' = rw
    /\ rendered' = txt

Samples == {NewInstance(typ) : typ \in TypeNames} \cup {NonRecord, Unregistered}

\* a new Mapping in a program that declares the record types decls
NewMapping(decls) ==
    /\ types = decls
    /\ mType \in DBTypes
    /\ tables = [typ \in {} |-> NoTable]
    /\ q = NoQuery
    /\ op = "none"
    /\ input = <<>>
    /\ args = <<>>
    /\ thing = NoThing
    /\ data = NoData
    /\ outcome = "ok"
    /\ stmt = NoStmt
    /\ results = <<>>
    /\ rows = NoRows
    /\ rowsOpen = 0
    /\ rendered = <<>>

Init == NewMapping([typ \in {"Post"} |-> PostFields])

AddTable(name, typ) ==
    /\ Idle
    /\ tables' = [x \in DOMAIN tables \cup {typ} |-> IF x = typ THEN NewTableMap(name, typ) ELSE tables[x]]
    /\ Called("AddTable", name, <<>>, NewInstance(typ), NoData, "ok", NoStmt, <<>>, NoRows, <<>>)
    /\ UNCHANGED <<mType, types, q, rowsOpen>>

Insert(x) ==
    /\ Idle
    /\ IF lookupTablePanics(x)
       THEN Called("Insert", <<>>, <<>>, x, NoData, lookupTableAbort, NoStmt, <<>>, NoRows, <<>>)
       ELSE LET t == lookupTable(x)
                cv == prepareInsertSqlColumnsValues(x, t)
            IN  IF sqlPlaceholdersPanics(Len(cv.columns), mType)
                THEN Called("Insert", <<>>, <<>>, x, NoData, "panic", NoStmt, <<>>, NoRows, <<>>)
                ELSE \E out \in {"ok", "error"} :
                        Called("Insert", <<>>, <<>>, x, NoData, out,
                               [via |-> "Exec", sql |-> sqlInsertString(t.Name, cv.columns, mType), args |-> cv.values],
                               <<>>, NoRows, <<>>)
    /\ UNCHANGED <<mType, types, tables, q, rowsOpen>>

InsertValues(table, columns, values) ==
    /\ Idle
    /\ IF sqlPlaceholdersPanics(Len(columns), mType)
       THEN Called("InsertValues", table, values, NoThing, NoData, "panic", NoStmt, <<>>, NoRows, <<>>)
       ELSE \E out \in {"ok", "error"} :
               Called("InsertValues", table, values, NoThing, NoData, out,
                      [via |-> "Exec", sql |-> sqlInsertString(table, columns, mType), args |-> values],
                      <<>>, NoRows, <<>>)
    /\ UNCHANGED <<mType, types, tables, q, rowsOpen>>

Update(x, d) ==
    /\ Idle
    /\ IF lookupTablePanics(x)
       THEN Called("Update", <<>>, <<>>, x, d, lookupTableAbort, NoStmt, <<>>, NoRows, <<>>)
       ELSE LET u == update(x, lookupTable(x), d, mType)
            IN  \E out \in {"ok", "error"} :
                   Called("Update", <<>>, <<>>, [x EXCEPT !.fields = u.fields], d, out,
                          [via |-> "Exec", sql |-> u.sql, args |-> u.args], <<>>, NoRows, <<>>)
    /\ UNCHANGED <<mType, types, tables, q, rowsOpen>>

Select(x, query, resp) ==
    /\ Idle
    /\ IF lookupTablePanics(x)
       THEN /\ Called("Select", query, <<>>, x, NoData, lookupTableAbort, NoStmt, <<>>, NoRows, <<>>)
            /\ rowsOpen' = rowsOpen
       ELSE LET res == doSelect(lookupTable(x), resp)
            IN  /\ Called("Select", query, <<>>, x, NoData, res.outcome,
                          [via |-> "Query", sql |-> query, args |-> <<>>], res.results, resp, <<>>)
                /\ rowsOpen' = rowsOpen + res.opened - res.closed
    /\ UNCHANGED <<mType, types, tables, q>>

SelectOne(x, query, resp) ==
    /\ Idle
    /\ IF lookupTablePanics(x)
       THEN /\ Called("SelectOne", query, <<>>, x, NoData, lookupTableAbort, NoStmt, <<>>, NoRows, <<>>)
            /\ rowsOpen' = rowsOpen
       ELSE LET res == doSelect(lookupTable(x), resp)
                one == SelectOneResult(res)
            IN  /\ Called("SelectOne", query, <<>>, x, NoData, one.outcome,
                          [via |-> "Query", sql |-> query, args |-> <<>>], one.results, resp, <<>>)
                /\ rowsOpen' = rowsOpen + res.opened - res.closed
    /\ UNCHANGED <<mType, types, tables, q>>

Query(x, columns) ==
    /\ Ready
    /\ IF lookupTablePanics(x)
       THEN /\ Called("Query", columns, <<>>, x, NoData, lookupTableAbort, NoStmt, <<>>, NoRows, <<>>)
            /\ q' = q
       ELSE /\ Called("Query", columns, <<>>, x, NoData, "ok", NoStmt, <<>>, NoRows, <<>>)
            /\ q' = NewQuery(columns, lookupTable(x))
    /\ UNCHANGED <<mType, types, tables, rowsOpen>>

Where(condition, binding) ==
    /\ Building
    /\ Len(q.conditions) < MaxConds
    /\ IF WherePanics(condition)
       THEN /\ Called("Where", condition, <<binding>>, NoThing, NoData, "panic", NoStmt, <<>>, NoRows, <<>>)
            /\ q' = q
       ELSE /\ Called("Where", condition, <<binding>>, NoThing, NoData, "ok", NoStmt, <<>>, NoRows, <<>>)
            /\ q' = [q EXCEPT !.conditions = Append(@, WhereCondition(condition)),
                              !.bindings = Append(@, binding)]
    /\ UNCHANGED <<mType, types, tables, rowsOpen>>

In(column, bindings) ==
    /\ Building
    /\ Len(q.conditions) < MaxConds
    /\ IF sqlPlaceholdersPanics(Len(bindings), mType)
       THEN /\ Called("In", column, bindings, NoThing, NoData, "panic", NoStmt, <<>>, NoRows, <<>>)
            /\ q' = q
       ELSE /\ Called("In", column, bindings, NoThing, NoData, "ok", NoStmt, <<>>, NoRows, <<>>)
            /\ q' = [q EXCEPT !.conditions = Append(@, InCondition(column, Len(bindings), mType)),
                              !.bindings = @ \o bindings]
    /\ UNCHANGED <<mType, types, tables, rowsOpen>>

Limit(n) ==
    /\ Building
    /\ q' = [q EXCEPT !.limit = n]
    /\ Called("Limit", Itoa(n), <<>>, NoThing, NoData, "ok", NoStmt, <<>>, NoRows, <<>>)
    /\ UNCHANGED <<mType, types, tables, rowsOpen>>

Order(o) ==
    /\ Building
    /\ q' = [q EXCEPT !.order = o]
    /\ Called("Order", o, <<>>, NoThing, NoData, "ok", NoStmt, <<>>, NoRows, <<>>)
    /\ UNCHANGED <<mType, types, tables, rowsOpen>>

QueryString ==
    /\ Building
    /\ Called("String", <<>>, <<>>, NoThing, NoData, "ok", NoStmt, <<>>, NoRows, String(q))
    /\ UNCHANGED <<mType, types, tables, q, rowsOpen>>

Do(resp) ==
    /\ Building
    /\ LET res == doSelect(q.t, resp)
       IN  /\ Called("Do", <<>>, <<>>, NoThing, NoData, res.outcome,
                     [via |-> "Query", sql |-> String(q), args |-> q.bindings], res.results, resp, <<>>)
           /\ rowsOpen' = rowsOpen + res.opened - res.closed
    /\ UNCHANGED <<mType, types, tables, q>>

\* the caller lets go of the builder
Drop ==
    /\ Building
    /\ q' = NoQuery
    /\ UNCHANGED <<mType, types, tables, op, input, args, thing, data, outcome, stmt, results, rows, rowsOpen, rendered>>

\* the caller has taken the results of its call and is ready for the next one
Return ==
    /\ ~Ready
    /\ Called("none", <<>>, <<>>, NoThing, NoData, "ok", NoStmt, <<>>, NoRows, <<>>)
    /\ UNCHANGED <<mType, types, tables, q, rowsOpen>>

(***************************************************************************)
(* The inputs of the calls                                                 *)
(***************************************************************************)
InsertThings == Things("Post") \cup {NonRecord, Unregistered}

\* Update's data maps: any of these column names, each with one new value;
\* "nope" names no column of the table
DataValue(name) ==
    CASE name = <<"i","d">> -> IntV(9)
      [] name = <<"t","i","t","l","e">> -> StrV(<<"n","e","w">>)
      [] name = <<"b","o","d","y">> -> SliceV(<<2>>)
      [] name = <<"r","e","v">> -> IntV(8)
      [] OTHER -> IntV(0)

DataKeys == {<<"i","d">>, <<"t","i","t","l","e">>, <<"b","o","d","y">>, <<"r","e","v">>, <<"n","o","p","e">>}
DataMaps == {[k \in keys |-> DataValue(k)] : keys \in SUBSET DataKeys}

QueryTexts == {<<"S","E","L","E","C","T"," ","*"," ","F","R","O","M"," ","p","o","s","t","s">>}

InsertValuesColumns == {<<>>, <<<<"i","d">>>>, <<<<"i","d">>, <<"t","i","t","l","e">>>>}

\* Where's fragments: bare column names, operator fragments, and fragments
\* shorter than the three characters Where looks back over
WhereFragments == {<<"t","i","t","l","e">>, <<"a","g","e"," ",">">>, <<"a"," "," ",">">>, <<"a">>, <<" ","x">>, <<>>}

InValues(n) == [i \in 1..n |-> IntV(i)]

Next ==
    \/ \E typ \in TypeNames : AddTable(TableNameOf(typ), typ)
    \/ \E x \in InsertThings : Insert(x)
    \/ \E c \in InsertValuesColumns : InsertValues(<<"p","o","s","t","s">>, c, InValues(Len(c)))
    \/ \E x \in InsertThings, d \in DataMaps : Update(x, d)
    \/ \E x \in Samples, query \in QueryTexts, resp \in Responses : Select(x, query, resp)
    \/ \E x \in Samples, query \in QueryTexts, resp \in Responses : SelectOne(x, query, resp)
    \/ \E x \in Samples : Query(x, <<"*">>)
    \/ \E c \in WhereFragments : Where(c, StrV(<<"h","i">>))
    \/ \E n \in {0, 1, MaxIn} : In(<<"i","d">>, InValues(n))
    \/ \E n \in {0 - 1, 0, 5} : Limit(n)
    \/ \E o \in {<<>>, <<"i","d">>} : Order(o)
    \/ QueryString
    \/ \E resp \in DoResponses : Do(resp)
    \/ Drop
    \/ Return

Spec == Init /\ [][Next]_vars

(***************************************************************************)
(* AddTable over record types of every tagging: a program that declares    *)
(* one record type of MaxFields fields, field i tagged with any            *)
(* arrangement of any of its column name ci and the keywords pk and        *)
(* serialize (none of them: the field has no db tag), and registers it.    *)
(***************************************************************************)
MaxFields == 2

Keywords == {<<"p","k">>, <<"s","e","r","i","a","l","i","z","e">>}

ColumnNameOf(i) == <<"c">> \o Itoa(i)

\* the arrangements of the tokens S
Arrangements(S) == {p \in [1..Cardinality(S) -> S] : \A i, j \in 1..Cardinality(S) : i # j => p[i] # p[j]}

TagsOf(name) == {Join(p, <<",">>) : p \in UNION {Arrangements(S) : S \in SUBSET ({name} \cup Keywords)}}

TagDecls ==
    LET all == UNION {TagsOf(ColumnNameOf(i)) : i \in 1..MaxFields}
        tags == {t \in [1..MaxFields -> all] : \A i \in 1..MaxFields : t[i] \in TagsOf(ColumnNameOf(i))}
    IN  {[i \in 1..MaxFields |-> [kind |-> "Int", tag |-> t[i]]] : t \in tags}

TagInit == \E d \in TagDecls : NewMapping([typ \in {"Row"} |-> d])

TagNext ==
    \/ \E typ \in TypeNames : AddTable(TableNameOf(typ), typ)
    \/ Return

TagSpec == TagInit /\ [][TagNext]_vars

(***************************************************************************)
(* What the claims speak of: the Post declaration read by hand (name and   *)
(* position of every tagged field, in declaration order), and the reading  *)
(* of statement texts.                                                     *)
(***************************************************************************)
PostTagged == <<
    [name |-> <<"i","d">>, pos |-> 1, serialize |-> FALSE, pk |-> TRUE],
    [name |-> <<"t","i","t","l","e">>, pos |-> 2, serialize |-> FALSE, pk |-> FALSE],
    [name |-> <<"b","o","d","y">>, pos |-> 3, serialize |-> TRUE, pk |-> FALSE],
    [name |-> <<"a","u","t","h","o","r">>, pos |-> 4, serialize |-> FALSE, pk |-> FALSE],
    [name |-> <<"r","e","v">>, pos |-> 5, serialize |-> FALSE, pk |-> TRUE],
    [name |-> <<"m","e","t","a">>, pos |-> 6, serialize |-> FALSE, pk |-> FALSE],
    [name |-> <<"s","i","g">>, pos |-> 7, serialize |-> FALSE, pk |-> FALSE] >>

Names(cols) == [i \in 1..Len(cols) |-> cols[i].name]

IsSubAt(s, sub, i) == i + Len(sub) - 1 <= Len(s) /\ SubSeq(s, i, i + Len(sub) - 1) = sub

\* position of the first occurrence of sub in s, 0 when there is none
IndexOfSub(s, sub) ==
    IF \E i \in 1..Len(s) : IsSubAt(s, sub, i)
    THEN CHOOSE i \in 1..Len(s) : IsSubAt(s, sub, i) /\ \A j \in 1..(i - 1) : ~IsSubAt(s, sub, j)
    ELSE 0

HasSub(s, sub) == IndexOfSub(s, sub) # 0

CountChar(s, ch) == Cardinality({i \in 1..Len(s) : s[i] = ch})

\* the text of s after the first occurrence of from and before the next occurrence of to
Between(s, from, to) ==
    LET rest == SubSeq(s, IndexOfSub(s, from) + Len(from), Len(s))
    IN  SubSeq(rest, 1, IndexOfSub(rest, to) - 1)

\* the items of a ", "-separated list
ListItems(s) ==
    IF s = <<>> THEN <<>>
    ELSE LET parts == Split(s)
         IN  [i \in 1..Len(parts) |-> IF i > 1 /\ Len(parts[i]) > 0 /\ parts[i][1] = " " THEN Tail(parts[i]) ELSE parts[i]]

Last(s) == s[Len(s)]

\* the number of placeholders of either family in a statement text
PlaceholderCount(sql) == CountChar(sql, "?") + CountChar(sql, "$")

\* no placeholder of the family the dialect does not use
InFamily(sql, dbt) == IF dbt = PostgreSQL THEN CountChar(sql, "?") = 0 ELSE CountChar(sql, "$") = 0

Returned(o) == op = o /\ outcome # "panic"

(***************************************************************************)
(* C1                                                                      *)
(***************************************************************************)
IsNilPointer(v) == v.kind = "Ptr" /\ v.nil
IsEmptyCollection(v) == v.kind \in {"Slice", "Map", "Array"} /\ v.elems = <<>>

InsertedColumns(x) ==
    SelectSeq(PostTagged, LAMBDA c : ~IsNilPointer(x.fields[c.pos]) /\ ~IsEmptyCollection(x.fields[c.pos]))

InsertedValue(c, v) ==
    IF c.serialize THEN StrV(Marshal(v))
    ELSE IF v.kind = "Ptr" THEN IntV(v.elems[1])
    ELSE v

\* C1: the column list of the INSERT statement that Insert(x) hands to the
\* executor is exactly the tagged fields of x's type whose value is neither a
\* nil pointer nor an empty slice/map/array, in declaration order, and the
\* bound values are the values of those columns, one per column, in the same order.
C1_InsertColumns ==
    Returned("Insert") =>
        LET cols == InsertedColumns(thing)
        IN  /\ stmt.via = "Exec"
            /\ ListItems(Between(stmt.sql, <<"(">>, <<")">>)) = Names(cols)
            /\ Len(stmt.args) = Len(cols)
            /\ \A i \in 1..Len(cols) : stmt.args[i] = InsertedValue(cols[i], thing.fields[cols[i].pos])

\* an Insert of a record with a nil pointer, a nil slice and an empty map next
\* to set fields: four columns are left out
C1_Witness ==
    /\ Returned("Insert")
    /\ thing.fields[4] = NilPtr /\ thing.fields[3] = NilSlice /\ thing.fields[6] = MapV(<<>>)
    /\ Len(stmt.args) = 3
    /\ stmt.sql = <<"I","N","S","E","R","T"," ","I","N","T","O"," ","p","o","s","t","s"," ","(","i","d",","," ","t","i","t","l","e",","," ","r","e","v",")"," ","V","A","L","U","E","S"," ","(","?",","," ","?",","," ","?",")">>

\* an Insert that keeps the pointer and the serialize-flagged slice
C1_WitnessFull ==
    /\ Returned("Insert")
    /\ thing.fields[4] = PtrV(3) /\ thing.fields[3] = SliceV(<<1>>) /\ thing.fields[6] = MapV(<<4>>)
    /\ Len(stmt.args) = 6

(***************************************************************************)
(* C2                                                                      *)
(***************************************************************************)
\* C2: every statement generated by Insert, InsertValues, Update or a builder
\* (Do, String) renders as many placeholders as it has bound parameters, all of
\* the family of the Mapping's dialect ("?" or "$n", never both).
C2_PlaceholdersMatchDialect ==
    /\ (Returned("Insert") \/ Returned("InsertValues") \/ Returned("Update") \/ Returned("Do")) =>
            /\ PlaceholderCount(stmt.sql) = Len(stmt.args)
            /\ InFamily(stmt.sql, mType)
    /\ Returned("String") =>
            /\ PlaceholderCount(rendered) = Len(q.bindings)
            /\ InFamily(rendered, mType)

(***************************************************************************)
(* C3                                                                      *)
(***************************************************************************)
NamesNoMappedColumn(d) == \A i \in 1..Len(PostTagged) : PostTagged[i].name \notin DOMAIN d

\* C3: an Update whose data map names no mapped column hands no UPDATE
\* statement with an empty SET clause to the executor.
C3_NoEmptySetExecuted ==
    (Returned("Update") /\ NamesNoMappedColumn(data)) =>
        ~(stmt.via = "Exec" /\ Between(stmt.sql, <<" ","S","E","T"," ">>, <<" ","W","H","E","R","E">>) = <<>>)

(***************************************************************************)
(* C4                                                                      *)
(***************************************************************************)
EndsWithOperator(fragment) == Len(fragment) > 0 /\ Last(fragment) \in {">", "<", "="}

\* C4: Where appends " =" before the placeholder exactly when the fragment
\* does not already end with an operator, and appends one condition and one
\* bound value.
C4_WhereAddsEqualsUnlessOperator ==
    Returned("Where") =>
        /\ Len(q.conditions) >= 1
        /\ Last(q.conditions) = (IF EndsWithOperator(input) THEN input ELSE input \o <<" ","=">>) \o <<" ","?">>
        /\ Last(q.bindings) = args[1]

(***************************************************************************)
(* C5                                                                      *)
(***************************************************************************)
Scattering == Returned("Select") \/ Returned("SelectOne") \/ Returned("Do")

\* a rowset was obtained with its column names, and neither the driver's
\* conversion nor a decode fails on it
CleanRowset ==
    /\ ~rows.queryErr /\ ~rows.columnsErr /\ rows.scanErrAt = 0
    /\ rows.columns # <<>>
    /\ \A r \in 1..Len(rows.rows), x \in 1..Len(rows.columns) :
            rows.columns[x] = <<"b","o","d","y">> => rows.rows[r].body \in {<<>>, <<"[","1","]">>}

HasUnmappedColumn == \E x \in 1..Len(rows.columns) : \A i \in 1..Len(PostTagged) : PostTagged[i].name # rows.columns[x]

\* C5: a result column that matches no column descriptor is tolerated: no error
\* is returned, and the other columns of the row are scattered into the record.
C5_UnmappedColumnTolerated ==
    (Scattering /\ CleanRowset /\ HasUnmappedColumn /\ Len(rows.rows) >= 1) =>
        /\ outcome = "ok"
        /\ Len(results) >= 1
        /\ results[1].fields[1] = IntV(rows.rows[1].id)
        /\ results[1].fields[2] = StrV(<<"t">> \o Itoa(rows.rows[1].id))

(***************************************************************************)
(* C6                                                                      *)
(***************************************************************************)
\* the executor fails, or the scatter of some row does
ExecutorOrScatterFails ==
    \/ rows.queryErr
    \/ rows.columnsErr
    \/ rows.scanErrAt \in 1..Len(rows.rows)
    \/ \E r \in 1..Len(rows.rows), x \in 1..Len(rows.columns) :
            rows.columns[x] = <<"b","o","d","y">> /\ rows.rows[r].body = <<"x">>

\* C6: SelectOne returns (null, no error) on zero rows, (null, error) when the
\* executor or the row scatter fails, and otherwise only the record of the
\* first row the executor returned.
C6_SelectOne ==
    Returned("SelectOne") =>
        /\ outcome = "error" => results = <<>>
        /\ ExecutorOrScatterFails => outcome = "error"
        /\ (~rows.queryErr /\ ~rows.columnsErr /\ rows.rows = <<>>) => (outcome = "ok" /\ results = <<>>)
        /\ (outcome = "ok" /\ rows.rows # <<>>) =>
                /\ Len(results) = 1
                /\ results[1].fields[1] = IntV(rows.rows[1].id)

\* SelectOne on two rows: the record of the first is returned
C6_Witness ==
    /\ Returned("SelectOne")
    /\ outcome = "ok"
    /\ Len(rows.rows) = 2
    /\ rows.rows[1].id = 7 /\ rows.rows[2].id = 1
    /\ results = <<[NewInstance("Post") EXCEPT !.fields[1] = IntV(7)]>>

\* SelectOne on zero rows, and on a failing scatter
C6_WitnessNoRows == Returned("SelectOne") /\ rows.columns # <<>> /\ rows.rows = <<>> /\ outcome = "ok" /\ results = <<>>
C6_WitnessError == Returned("SelectOne") /\ Len(rows.rows) = 2 /\ rows.rows[2].body = <<"x">> /\ outcome = "error"

(***************************************************************************)
(* C7                                                                      *)
(***************************************************************************)
InData(cols) == SelectSeq(cols, LAMBDA c : c.name \in DOMAIN data)
PrimaryKeys == SelectSeq(PostTagged, LAMBDA c : c.pk)

\* C7: Update writes every supplied value of a mapped column into the caller's
\* record before it reads the primary-key values: the bound values are the SET
\* values in table column order, then the primary-key values in table column
\* order, a key named by the data bound to its new value.
C7_UpdateBindsPostMutationKeys ==
    Returned("Update") =>
        LET set == InData(PostTagged)
        IN  /\ \A i \in 1..Len(set) : thing.fields[set[i].pos] = data[set[i].name]
            /\ Len(stmt.args) = Len(set) + Len(PrimaryKeys)
            /\ \A i \in 1..Len(set) :
                    stmt.args[i] = IF set[i].serialize THEN StrV(Marshal(data[set[i].name])) ELSE data[set[i].name]
            /\ \A i \in 1..Len(PrimaryKeys) :
                    stmt.args[Len(set) + i] =
                        IF PrimaryKeys[i].name \in DOMAIN data
                        THEN data[PrimaryKeys[i].name]
                        ELSE thing.fields[PrimaryKeys[i].pos]
            /\ ListItems(Between(stmt.sql, <<" ","S","E","T"," ">>, <<" ","W","H","E","R","E">>)) =
                    [i \in 1..Len(set) |-> set[i].name \o <<" ","="," ">> \o Placeholder(i - 1, mType)]

\* an Update that changes the title and the key id of a record
C7_Witness ==
    /\ Returned("Update")
    /\ DOMAIN data = {<<"i","d">>, <<"t","i","t","l","e">>}
    /\ thing.fields[1] = IntV(9)
    /\ stmt.sql = <<"U","P","D","A","T","E"," ","p","o","s","t","s"," ","S","E","T"," ","i","d"," ","="," ","?",","," ","t","i","t","l","e"," ","="," ","?"," ","W","H","E","R","E"," ","i","d"," ","="," ","?"," ","A","N","D"," ","r","e","v"," ","="," ","?">>
    /\ stmt.args = <<IntV(9), StrV(<<"n","e","w">>), IntV(9), IntV(7)>>

(***************************************************************************)
(* C8                                                                      *)
(***************************************************************************)
\* the conditions joined by " AND ", built from the last one backwards
RECURSIVE AndJoined(_)
AndJoined(conds) ==
    IF Len(conds) = 1 THEN conds[1]
    ELSE AndJoined(SubSeq(conds, 1, Len(conds) - 1)) \o <<" ","A","N","D"," ">> \o conds[Len(conds)]

\* C8 as stated: once a limit n >= 0 was set by Limit(n) the rendering carries
\* " LIMIT n", and once a clause was set by Order(clause) it carries " ORDER BY clause".
C8_ClauseIffSet ==
    /\ (Returned("Limit") /\ q.limit >= 0) => HasSub(String(q), <<" ","L","I","M","I","T"," ">> \o input)
    /\ (Returned("Order") /\ input # <<>>) => HasSub(String(q), <<" ","O","R","D","E","R"," ","B","Y"," ">> \o input)

\* C8, amended: String() renders SELECT <columns> FROM <table>, then " WHERE "
\* and the conditions joined by " AND " in the order they were added iff there
\* is a condition, then " ORDER BY <clause>" iff the order clause is not empty,
\* then " LIMIT <n>" iff the limit is greater than 0, in that order.
C8_StringRendering ==
    Returned("String") =>
        /\ rendered =
                <<"S","E","L","E","C","T"," ">> \o q.columns \o <<" ","F","R","O","M"," ">> \o <<"p","o","s","t","s">>
                \o (IF q.conditions # <<>> THEN <<" ","W","H","E","R","E"," ">> \o AndJoined(q.conditions) ELSE <<>>)
                \o (IF q.order # <<>> THEN <<" ","O","R","D","E","R"," ","B","Y"," ">> \o q.order ELSE <<>>)
                \o (IF q.limit > 0 THEN <<" ","L","I","M","I","T"," ">> \o Itoa(q.limit) ELSE <<>>)
        /\ HasSub(rendered, <<" ","W","H","E","R","E"," ">>) <=> Len(q.conditions) >= 1
        /\ HasSub(rendered, <<" ","O","R","D","E","R"," ","B","Y"," ">>) <=> q.order # <<>>
        /\ HasSub(rendered, <<" ","L","I","M","I","T"," ">>) <=> q.limit > 0

\* Query(Post{}, "*").Where("title", "hi").Order("id").Limit(5).String()
C8_Witness ==
    /\ Returned("String")
    /\ rendered = <<"S","E","L","E","C","T"," ","*"," ","F","R","O","M"," ","p","o","s","t","s"," ","W","H","E","R","E"," ","t","i","t","l","e"," ","="," ","?"," ","O","R","D","E","R"," ","B","Y"," ","i","d"," ","L","I","M","I","T"," ","5">>

\* two conditions, an order clause and a limit
C8_WitnessTwoConditions ==
    /\ Returned("String")
    /\ Len(q.conditions) = 2 /\ q.conditions[1] # q.conditions[2]
    /\ q.order # <<>> /\ q.limit > 0

\* a negative limit and no order clause: neither clause is rendered
C8_WitnessUnset ==
    /\ Returned("String")
    /\ q.limit < 0 /\ q.order = <<>> /\ q.conditions = <<>>
    /\ rendered = <<"S","E","L","E","C","T"," ","*"," ","F","R","O","M"," ","p","o","s","t","s">>

(***************************************************************************)
(* C9                                                                      *)
(***************************************************************************)
\* C9: for every number of values, zero included, and under both dialects, In
\* does not abort; it appends one "column IN (...)" condition with as many
\* placeholders as values, and appends the values to the bindings in order.
C9_InAppendsSizedList ==
    op = "In" =>
        /\ outcome = "ok"
        /\ Len(q.conditions) >= 1
        /\ IsSubAt(Last(q.conditions), input \o <<" ","I","N"," ","(">>, 1)
        /\ Last(Last(q.conditions)) = ")"
        /\ PlaceholderCount(Last(q.conditions)) = Len(args)
        /\ Len(q.bindings) >= Len(args)
        /\ SubSeq(q.bindings, Len(q.bindings) - Len(args) + 1, Len(q.bindings)) = args

(***************************************************************************)
(* C10                                                                     *)
(***************************************************************************)
\* C10: no call returns with a rowset obtained from the executor still open,
\* whichever exit doSelect takes.
C10_RowsetReleased == rowsOpen = 0

\* doSelect left by a scan error, by a decode error, by a Columns error, and normally
C10_WitnessScanError ==
    Scattering /\ ~rows.queryErr /\ ~rows.columnsErr /\ rows.scanErrAt = 1 /\ rows.rows # <<>>
        /\ outcome = "error" /\ rowsOpen = 0
C10_WitnessDecodeError ==
    Scattering /\ rows.scanErrAt = 0 /\ rows.columns = <<<<"b","o","d","y">>, <<"i","d">>>> /\ rows.rows = <<[id |-> 2, body |-> <<"x">>]>>
        /\ outcome = "error" /\ rowsOpen = 0
C10_WitnessColumnsError == Scattering /\ rows.columnsErr /\ outcome = "error" /\ rowsOpen = 0
C10_WitnessDone == Scattering /\ Len(results) = 2 /\ outcome = "ok" /\ rowsOpen = 0

(***************************************************************************)
(* C11                                                                     *)
(***************************************************************************)
LookupCalls == {"Insert", "Update", "Select", "SelectOne", "Query"}

\* the thing is no struct, or its type is not among the registered ones
Unknown(x) == ~x.struct \/ x.type \notin DOMAIN tables

\* C11: Insert, Update, Select, SelectOne and Query given a value that is not
\* a record, or a record of a type AddTable has not registered, abort: the
\* call ends in a panic, hands no statement to the executor, obtains no rowset,
\* returns no records and no builder, and leaves the registry as it was.
C11_UnknownThingAborts ==
    [][(op' \in LookupCalls /\ Unknown(thing'))
          => /\ outcome' = "panic"
             /\ stmt' = NoStmt
             /\ results' = <<>>
             /\ rowsOpen' = rowsOpen
             /\ q' = q
             /\ tables' = tables]_vars

\* a record of an unregistered type while another type is registered, and a
\* value that is no record, each refused by a call that would reach the executor
C11_Witness ==
    /\ op = "Update" /\ thing = Unregistered /\ "Post" \in DOMAIN tables
    /\ outcome = "panic" /\ stmt = NoStmt
C11_WitnessNonRecord ==
    op = "Select" /\ thing = NonRecord /\ "Post" \in DOMAIN tables /\ outcome = "panic" /\ stmt = NoStmt
C11_WitnessEmptyRegistry ==
    op = "Query" /\ thing.type = "Post" /\ DOMAIN tables = {} /\ outcome = "panic" /\ ~q.live

(***************************************************************************)
(* C13                                                                     *)
(***************************************************************************)
DigitChars == <<"0", "1", "2", "3", "4", "5", "6", "7", "8", "9">>
IsDigit(ch) == \E d \in 1..10 : DigitChars[d] = ch
DigitValue(ch) == (CHOOSE d \in 1..10 : DigitChars[d] = ch) - 1

\* the decimal number written at position i of s, read on from the value acc
RECURSIVE NumberAt(_, _, _)
NumberAt(s, i, acc) ==
    IF i <= Len(s) /\ IsDigit(s[i]) THEN NumberAt(s, i + 1, acc * 10 + DigitValue(s[i])) ELSE acc

\* the numbers of the $n placeholders of a text, in the order they appear
RECURSIVE PlaceholderNumbersFrom(_, _)
PlaceholderNumbersFrom(s, i) ==
    IF i > Len(s) THEN <<>>
    ELSE IF s[i] = "$" THEN <<NumberAt(s, i + 1, 0)>> \o PlaceholderNumbersFrom(s, i + 1)
    ELSE PlaceholderNumbersFrom(s, i + 1)

PlaceholderNumbers(s) == PlaceholderNumbersFrom(s, 1)

OneTo(n) == [i \in 1..n |-> i]

SetClause(sql) == Between(sql, <<" ","S","E","T"," ">>, <<" ","W","H","E","R","E"," ">>)
WhereClause(sql) == SubSeq(sql, IndexOfSub(sql, <<" ","W","H","E","R","E"," ">>) + 7, Len(sql))

\* C13: under the numbered dialect every clause is numbered from $1: in an
\* UPDATE the SET clause carries $1..$k for its k columns and the WHERE clause
\* carries $1..$m for its m keys, and the list of an In carries $1..$n for its
\* n values whatever conditions the builder holds already.
C13_NumberingRestartsPerClause ==
    mType = PostgreSQL =>
        /\ Returned("Update") =>
                /\ PlaceholderNumbers(SetClause(stmt.sql)) = OneTo(Len(InData(PostTagged)))
                /\ PlaceholderNumbers(WhereClause(stmt.sql)) = OneTo(Len(PrimaryKeys))
        /\ Returned("In") => PlaceholderNumbers(Last(q.conditions)) = OneTo(Len(args))

\* an UPDATE with two SET columns and two keys, and an In of two values on a
\* builder that holds a condition already
C13_Witness ==
    /\ mType = PostgreSQL
    /\ Returned("Update")
    /\ stmt.sql = <<"U","P","D","A","T","E"," ","p","o","s","t","s"," ","S","E","T"," ","i","d"," ","="," ","$","1",","," ","t","i","t","l","e"," ","="," ","$","2"," ","W","H","E","R","E"," ","i","d"," ","="," ","$","1"," ","A","N","D"," ","r","e","v"," ","="," ","$","2">>
C13_WitnessIn ==
    /\ mType = PostgreSQL
    /\ Returned("In")
    /\ q.conditions = <<<<"t","i","t","l","e"," ","="," ","?">>, <<"i","d"," ","I","N"," ","(","$","1",","," ","$","2",")">>>>
    /\ Len(args) = 2

(***************************************************************************)
(* C12                                                                     *)
(***************************************************************************)
\* the first token of a tag that is no keyword, empty when it has none
RECURSIVE FirstNonKeywordFrom(_, _)
FirstNonKeywordFrom(tokens, i) ==
    IF i > Len(tokens) THEN <<>>
    ELSE IF tokens[i] \in Keywords THEN FirstNonKeywordFrom(tokens, i + 1)
    ELSE tokens[i]

FirstNonKeyword(tag) == FirstNonKeywordFrom(Split(tag), 1)

CarriesTag(field) == field.tag # <<>>

\* the descriptors follow the declaration: each belongs to a field of the
\* type, they are in declaration order with distinct field indexes, and a
\* field has a descriptor exactly when it carries the tag
FollowsDeclaration(cols, fields) ==
    /\ \A i \in 1..Len(cols) : cols[i].Field \in 0..(Len(fields) - 1)
    /\ \A i, j \in 1..Len(cols) : i < j => cols[i].Field < cols[j].Field
    /\ \A f \in 1..Len(fields) : CarriesTag(fields[f]) <=> \E i \in 1..Len(cols) : cols[i].Field = f - 1

\* the name and the flags of each descriptor are those written in its field's tag
ReadsTag(cols, fields) ==
    \A i \in 1..Len(cols) :
        LET tokens == Split(fields[cols[i].Field + 1].tag)
        IN  /\ cols[i].Name = FirstNonKeyword(fields[cols[i].Field + 1].tag)
            /\ cols[i].PrimaryKey <=> \E k \in 1..Len(tokens) : tokens[k] = <<"p","k">>
            /\ cols[i].Serialize <=> \E k \in 1..Len(tokens) : tokens[k] = <<"s","e","r","i","a","l","i","z","e">>

\* C12: after AddTable every column descriptor of the stored table has a
\* non-empty column name, the first non-keyword token of its field's tag; the
\* descriptors are in field declaration order with pairwise distinct field
\* indexes; and a field has a descriptor if and only if it carries the tag.
C12_DescriptorsWellFormed ==
    \A typ \in DOMAIN tables :
        /\ FollowsDeclaration(tables[typ].Columns, types[typ])
        /\ ReadsTag(tables[typ].Columns, types[typ])
        /\ \A i \in 1..Len(tables[typ].Columns) : tables[typ].Columns[i].Name # <<>>

\* what AddTable keeps for every tagging: all of the above but the non-empty
\* name, which it keeps for the tags that hold a column name
C12_DescriptorsFollowTags ==
    \A typ \in DOMAIN tables :
        /\ FollowsDeclaration(tables[typ].Columns, types[typ])
        /\ ReadsTag(tables[typ].Columns, types[typ])
        /\ \A i \in 1..Len(tables[typ].Columns) :
                tables[typ].Columns[i].Name = <<>>
                    <=> FirstNonKeyword(types[typ][tables[typ].Columns[i].Field + 1].tag) = <<>>

\* a registered type whose second field is tagged with keywords only
C12_WitnessKeywordsOnly ==
    /\ "Row" \in DOMAIN tables
    /\ types["Row"][1].tag = <<"s","e","r","i","a","l","i","z","e",",","c","1",",","p","k">>
    /\ types["Row"][2].tag = <<"p","k">>

====
